---------------------------- MODULE Spec2Model ----------------------------
(***************************************************************************)
(* Model of app.py, the Polkadot Subscan data fetcher: the two helpers      *)
(* format_dot and extract_address, and the fetch loop that issues one       *)
(* request per row of the uploaded table and appends one result record.     *)
(*                                                                          *)
(* Python values are tagged records; every Python string is a sequence of   *)
(* one-character strings, so that strip, rstrip, str() and f-strings are    *)
(* computed character by character.  Integers are sequences of decimal      *)
(* digits (most significant first), so that the double-precision arithmetic *)
(* of format_dot is computed exactly.                                       *)
(***************************************************************************)
EXTENDS Integers, Sequences, FiniteSets, TLC

VARIABLES df, pc, index, response, requests, replies, results, call, ret

vars == <<df, pc, index, response, requests, replies, results, call, ret>>

-----------------------------------------------------------------------------
(* Python values *)

PyNone == [t |-> "none"]
PyStr(s) == [t |-> "str", s |-> s]
PyInt(d) == [t |-> "int", d |-> d]
PyList(items) == [t |-> "list", items |-> items]
PyDict(items) == [t |-> "dict", items |-> items]

(* the member of a set of one element: in Only({e : x \in {v}}) it is e  *)
(* for x the value of v, v being evaluated once                              *)
Only(S) == CHOOSE e \in S : TRUE

RECURSIVE Concat(_)
Concat(ss) == IF ss = <<>> THEN <<>> ELSE Head(ss) \o Concat(Tail(ss))

DigitChar(d) == <<"0", "1", "2", "3", "4", "5", "6", "7", "8", "9">>[d + 1]

IsDigitChar(c) == c \in {"0", "1", "2", "3", "4", "5", "6", "7", "8", "9"}

CharDigit(c) == CHOOSE d \in 0..9 : DigitChar(d) = c

DigitsToChars(d) == [i \in 1..Len(d) |-> DigitChar(d[i])]

-----------------------------------------------------------------------------
(* Arithmetic on natural numbers as digit sequences without leading zeros  *)
(* (here zero is the empty sequence)                                        *)

(* The operators below that work through the digits of a number take the *)
(* steps lo, lo + 1, ... of a span of steps, a power of two: the first    *)
(* half of the span, then the second half on the result of the first.     *)

(* the least power of two that is n at least *)
RECURSIVE Span(_)
Span(n) == IF n <= 1 THEN 1 ELSE 2 * Span((n + 1) \div 2)

(* d without its leading zeros *)
Norm(d) ==
    Only({
        LET nonzero == {i \in 1..Len(x) : x[i] # 0}
        IN  IF nonzero = {} THEN <<>>
            ELSE SubSeq(x, CHOOSE i \in nonzero : \A j \in nonzero : i <= j, Len(x))
          : x \in {d}})

(* a < b for digit sequences of one length *)
LexLess(a, b) == \E i \in 1..Len(a) : a[i] < b[i] /\ \A j \in 1..(i - 1) : a[j] = b[j]

Less(a, b) ==
    Only({
        IF Len(ab[1]) # Len(ab[2]) THEN Len(ab[1]) < Len(ab[2]) ELSE LexLess(ab[1], ab[2])
          : ab \in {<<a, b>>}})

Zeros(n) == [i \in 1..n |-> 0]

IsOdd(d) == d # <<>> /\ d[Len(d)] % 2 = 1

(* the digits of a native natural number *)
RECURSIVE FromNat(_)
FromNat(n) == IF n = 0 THEN <<>> ELSE Append(FromNat(n \div 10), n % 10)

(* s.d * s.m + s.carry: the digits lo, lo + 1, ... from the right *)
RECURSIVE MulAcc(_, _, _)
MulAcc(s, lo, span) ==
    IF lo > Len(s.d) THEN s
    ELSE IF span = 1 THEN
        LET v == s.d[Len(s.d) + 1 - lo] * s.m + s.carry
        IN  [s EXCEPT !.carry = v \div 10, !.acc = <<v % 10>> \o s.acc]
    ELSE Only({
             MulAcc(t, lo + span \div 2, span \div 2)
               : t \in {MulAcc(s, lo, span \div 2)}})

(* d * m + c for native m and c *)
MulAdd(d, m, c) ==
    Only({
        Only({Norm(FromNat(s.carry) \o s.acc)
              : s \in {MulAcc(in, 1, in.span)}})
          : in \in {[d |-> d, m |-> m, carry |-> c, acc |-> <<>>, span |-> Span(Len(d))]}})

MulSmall(d, m) == MulAdd(d, m, 0)

Inc(d) == MulAdd(d, 1, 1)

(* s.d divided by s.m: the digits lo, lo + 1, ... from the left *)
RECURSIVE DivAcc(_, _, _)
DivAcc(s, lo, span) ==
    IF lo > Len(s.d) THEN s
    ELSE IF span = 1 THEN
        LET v == s.r * 10 + s.d[lo]
        IN  [s EXCEPT !.q = Append(s.q, v \div s.m), !.r = v % s.m]
    ELSE Only({
             DivAcc(t, lo + span \div 2, span \div 2)
               : t \in {DivAcc(s, lo, span \div 2)}})

(* floor(d / m) and d mod m for native m *)
DivSmall(d, m) ==
    Only({
        Only({[q |-> Norm(s.q), r |-> s.r]
              : s \in {DivAcc(in, 1, in.span)}})
          : in \in {[d |-> d, m |-> m, q |-> <<>>, r |-> 0, span |-> Span(Len(d))]}})

(* s.a - s.b: the digits lo, lo + 1, ... from the right *)
RECURSIVE SubAcc(_, _, _)
SubAcc(s, lo, span) ==
    IF lo > Len(s.a) THEN s
    ELSE IF span = 1 THEN
        LET x == s.a[Len(s.a) + 1 - lo]
            y == (IF lo <= Len(s.b) THEN s.b[Len(s.b) + 1 - lo] ELSE 0) + s.borrow
        IN  [s EXCEPT !.borrow = IF x >= y THEN 0 ELSE 1,
                      !.acc = <<IF x >= y THEN x - y ELSE x + 10 - y>> \o s.acc]
    ELSE Only({
             SubAcc(t, lo + span \div 2, span \div 2)
               : t \in {SubAcc(s, lo, span \div 2)}})

(* a - b for a >= b *)
Sub(a, b) ==
    Only({
        Norm(SubAcc(in, 1, in.span).acc)
          : in \in {[a |-> a, b |-> b, borrow |-> 0, acc |-> <<>>, span |-> Span(Len(a))]}})

(* s.x * 2^16, s.n times: the times lo, lo + 1, ... *)
RECURSIVE ShiftLeftAcc(_, _, _)
ShiftLeftAcc(s, lo, span) ==
    IF lo > s.n THEN s
    ELSE IF span = 1 THEN [s EXCEPT !.x = MulSmall(s.x, 2^16)]
    ELSE Only({
             ShiftLeftAcc(t, lo + span \div 2, span \div 2)
               : t \in {ShiftLeftAcc(s, lo, span \div 2)}})

(* x * 2^k, sixteen bits at a time *)
ShiftLeft(x, k) ==
    Only({
        Only({MulSmall(s.x, 2^(k % 16))
              : s \in {ShiftLeftAcc(in, 1, in.span)}})
          : in \in {[x |-> x, n |-> k \div 16, span |-> Span(k \div 16)]}})

(* s.q shifted right by j bits, s.sticky telling whether a one bit has left *)
ShiftStep(s, j) ==
    Only({
        [s EXCEPT !.q = qr.q, !.sticky = s.sticky \/ qr.r # 0]
          : qr \in {DivSmall(s.q, 2^j)}})

(* s.q shifted right by sixteen bits, s.n times: the times lo, lo + 1, ... *)
RECURSIVE ShiftRightAcc(_, _, _)
ShiftRightAcc(s, lo, span) ==
    IF lo > s.n THEN s
    ELSE IF span = 1 THEN ShiftStep(s, 16)
    ELSE Only({
             ShiftRightAcc(t, lo + span \div 2, span \div 2)
               : t \in {ShiftRightAcc(s, lo, span \div 2)}})

(* floor(x / 2^k) and whether any one bit was shifted out *)
ShiftRightSticky(x, k, sticky) ==
    Only({
        Only({
            Only({[q |-> a.q, sticky |-> a.sticky]
                  : a \in {ShiftStep(s, k % 16)}})
              : s \in {ShiftRightAcc(in, 1, in.span)}})
          : in \in {[q |-> x, sticky |-> sticky, n |-> k \div 16, span |-> Span(k \div 16)]}})

(* x / 2^k rounded to the nearest integer, ties to even *)
ShiftRightRound(x, k) ==
    IF k = 0 THEN x
    ELSE Only({
             Only({
                 IF h.r = 1 /\ (a.sticky \/ IsOdd(h.q)) THEN Inc(h.q) ELSE h.q
                   : h \in {DivSmall(a.q, 2)}})
               : a \in {ShiftRightSticky(x, k - 1, FALSE)}})

(* the number s.n with the digits lo, lo + 1, ... of s.d appended *)
RECURSIVE ToNatAcc(_, _, _)
ToNatAcc(s, lo, span) ==
    IF lo > Len(s.d) THEN s
    ELSE IF span = 1 THEN [s EXCEPT !.n = 10 * s.n + s.d[lo]]
    ELSE Only({
             ToNatAcc(t, lo + span \div 2, span \div 2)
               : t \in {ToNatAcc(s, lo, span \div 2)}})

(* a native natural number from its digits *)
ToNat(d) ==
    Only({ToNatAcc(in, 1, in.span).n
          : in \in {[d |-> d, n |-> 0, span |-> Span(Len(d))]}})

(* long division in steps of LimbDigits digits.  The quotient of one step  *)
(* is estimated from the leading digits of the divisor, LeadDigits of them *)
LimbDigits == 4

LeadDigits == 5

(* the greatest n in lo..hi with n * q <= r, given lo * q <= r *)
RECURSIVE Goes(_, _, _, _)
Goes(r, q, lo, hi) ==
    IF lo = hi THEN lo
    ELSE IF Less(r, MulSmall(q, hi)) THEN Goes(r, q, lo, hi - 1)
    ELSE hi

(* floor(r / q) for r below 10^LimbDigits * q.  With qtop the leading      *)
(* digits of q and rtop the digits of r above the others, the quotient is  *)
(* floor(rtop / (qtop + 1)) at least and floor(rtop / qtop) at most         *)
Quotient(r, q) ==
    LET drop == IF Len(q) > LeadDigits THEN Len(q) - LeadDigits ELSE 0
    IN  Only({
                   IF drop = 0 THEN top[1] \div top[2]
                   ELSE Goes(r, q, top[1] \div (top[2] + 1), top[1] \div top[2])
              : top \in {<<ToNat(SubSeq(r, 1, Len(r) - drop)), ToNat(SubSeq(q, 1, Len(q) - drop))>>}})

(* n as LimbDigits digits *)
Limb(n) == [i \in 1..LimbDigits |-> (n \div 10^(LimbDigits - i)) % 10]

(* one step: r (below 10^LimbDigits * q) divided by q *)
StepDiv(r, q) ==
    Only({[q |-> Limb(n), r |-> Sub(r, MulSmall(q, n))]
          : n \in {Quotient(r, q)}})

(* long division of the digits s.p by s.d: the limbs lo, lo + 1, ... are  *)
(* brought down to the remainder s.r, each giving a limb of the quotient  *)
RECURSIVE LongDiv(_, _, _)
LongDiv(s, lo, span) ==
    IF lo > Len(s.p) \div LimbDigits THEN s
    ELSE IF span = 1 THEN
        Only({
            Only({[s EXCEPT !.q = Norm(s.q \o g.q), !.r = g.r]
                  : g \in {StepDiv(r1, s.d)}})
              : r1 \in {Norm(s.r \o SubSeq(s.p, LimbDigits * (lo - 1) + 1, LimbDigits * lo))}})
    ELSE Only({
             LongDiv(t, lo + span \div 2, span \div 2)
               : t \in {LongDiv(s, lo, span \div 2)}})

(* floor(p / q) and p mod q, q > 0.  p is padded with zeros on the left to *)
(* whole limbs; leading limbs that hold fewer digits than q are below q    *)
(* and start the remainder                                                 *)
DivMod(p, q) ==
    Only({
        LET pad == (LimbDigits - (Len(pq[1]) % LimbDigits)) % LimbDigits
            pp == Zeros(pad) \o pq[1]
            k0 == LimbDigits * ((Len(pq[2]) - 1 + pad) \div LimbDigits)
            k == IF k0 > Len(pp) THEN Len(pp) ELSE k0
        IN  Only({
                Only({[q |-> s.q, r |-> s.r]
                      : s \in {LongDiv(in, 1, in.span)}})
                  : in \in {[p |-> SubSeq(pp, k + 1, Len(pp)), d |-> pq[2], q |-> <<>>, r |-> Norm(SubSeq(pp, 1, k)), span |-> Span((Len(pp) - k) \div LimbDigits)]}})
          : pq \in {<<p, q>>}})

-----------------------------------------------------------------------------
(* IEEE-754 doubles.  A finite double is (-1)^neg * m * 2^e with m < 2^53   *)
(* and MinExp <= e <= MaxExp; zero is m = 0 with e = 0.  Several pairs m, e *)
(* can stand for one double.  The largest double is (2^53 - 1) * 2^MaxExp.  *)

TwoTo52 == <<4, 5, 0, 3, 5, 9, 9, 6, 2, 7, 3, 7, 0, 4, 9, 6>>

TwoTo53 == <<9, 0, 0, 7, 1, 9, 9, 2, 5, 4, 7, 4, 0, 9, 9, 2>>

MinExp == 0 - 1074

MaxExp == 971

Finite(neg, m, e) == [kind |-> "finite", neg |-> neg, m |-> m, e |-> IF m = <<>> THEN 0 ELSE e]

Infinite(neg) == [kind |-> "inf", neg |-> neg]

NotANumber == [kind |-> "nan"]

(* the least k >= 0 with a * 2^k >= t; as 2^3 < 10, a number d >= 2 digits *)
(* shorter than t is still below t after 3 * (d - 1) doublings            *)
RECURSIVE NormShift(_, _, _)
NormShift(a, t, k) ==
    IF ~Less(a, t) THEN k
    ELSE Only({
             Only({NormShift(b, t, k + j)
                   : b \in {ShiftLeft(a, j)}})
               : j \in {IF Len(t) - Len(a) >= 2 THEN 3 * (Len(t) - Len(a) - 1) ELSE 1}})

(* p / (q * 2^e) rounded to an integer mantissa, ties to even, as a double *)
Rounded(neg, p, q, e) ==
    Only({
        LET twice == MulSmall(d.r, 2)
            up == Less(q, twice) \/ (twice = q /\ IsOdd(d.q))
            m == IF up THEN Inc(d.q) ELSE d.q
        IN  IF m = TwoTo53
            THEN IF e + 1 > MaxExp THEN Infinite(neg) ELSE Finite(neg, TwoTo52, e + 1)
            ELSE IF e > MaxExp THEN Infinite(neg) ELSE Finite(neg, m, e)
          : d \in {DivMod(p, q)}})

(* p * 2^k / q for any integer k, as the pair of integers to divide *)
Scaled(p, q, k) ==
    IF k >= 0 THEN [p |-> ShiftLeft(p, k), q |-> q] ELSE [p |-> p, q |-> ShiftLeft(q, 0 - k)]

(* the k with 2^52 <= p * 2^k / q < 2^53 *)
MantissaShift(p, q) ==
    Only({
        IF Less(p, low) THEN NormShift(p, low, 0)
        ELSE Only({
                 Only({0 - NormShift(high, above, 0)
                       : above \in {Inc(p)}})
                   : high \in {MulSmall(low, 2)}})
          : low \in {ShiftLeft(q, 52)}})

(* the double nearest to (p / q) * 2^e0 (p > 0, q > 0), ties to even: a    *)
(* 53-bit mantissa, fewer bits below the smallest normal double, infinite  *)
(* when the rounded value exceeds the largest double                       *)
RoundToDouble(neg, p, q, e0) ==
    Only({
        Only({
            Only({Rounded(neg, s.p, s.q, e0 - j)
                  : s \in {Scaled(p, q, j)}})
              : j \in {IF e0 - k < MinExp THEN e0 - MinExp ELSE k}})
          : k \in {MantissaShift(p, q)}})

(* the double nearest to the integer n >= 0: n itself below 2^53 *)
NatToDouble(neg, n) ==
    IF Less(n, TwoTo53) THEN Finite(neg, n, 0) ELSE RoundToDouble(neg, n, <<1>>, 0)

(* float(n) for an integer n >= 0 *)
IntToDouble(n) == NatToDouble(FALSE, n)

(* x / y for a finite x and a finite y > 0 *)
DoubleQuotient(x, y) ==
    IF x.m = <<>> THEN x ELSE RoundToDouble(x.neg, x.m, y.m, x.e - y.e)

(* the integer nearest to |x| * 10^places, ties to even *)
DoubleScaled(x, places) ==
    LET a == x.m \o (IF x.m = <<>> THEN <<>> ELSE Zeros(places))
    IN  IF x.e >= 0 THEN ShiftLeft(a, x.e) ELSE ShiftRightRound(a, 0 - x.e)

-----------------------------------------------------------------------------
(* Characters.  A character is a one-character string, so the characters    *)
(* of the model are those a string can hold: U+0001 to U+00FF.              *)

(* U+0001 to U+001F in code point order *)
C0Controls ==
    <<"", "", "", "", "", "", "", "", "\t", "\n", "",
      "\f", "\r", "", "", "", "", "", "", "", "", "",
      "", "", "", "", "", "", "", "", "">>

(* U+007F to U+00A0 in code point order *)
C1Controls ==
    <<"", "", "", "", "", "", "", "", "", "", "",
      "", "", "", "", "", "", "", "", "", "", "",
      "", "", "", "", "", "", "", "", "", "", "",
      " ">>

SoftHyphen == "­"

(* the code point of a character that str.isprintable() rejects, 0 for any other *)
NonPrintableCode(c) ==
    IF \E i \in 1..Len(C0Controls) : C0Controls[i] = c
    THEN CHOOSE i \in 1..Len(C0Controls) : C0Controls[i] = c
    ELSE IF \E i \in 1..Len(C1Controls) : C1Controls[i] = c
    THEN 126 + (CHOOSE i \in 1..Len(C1Controls) : C1Controls[i] = c)
    ELSE IF c = SoftHyphen THEN 173
    ELSE 0

HexDigit(n) ==
    <<"0", "1", "2", "3", "4", "5", "6", "7", "8", "9", "a", "b", "c", "d", "e", "f">>[n + 1]

UpperCase ==
    <<"A", "B", "C", "D", "E", "F", "G", "H", "I", "J", "K", "L", "M",
      "N", "O", "P", "Q", "R", "S", "T", "U", "V", "W", "X", "Y", "Z">>

LowerCase ==
    <<"a", "b", "c", "d", "e", "f", "g", "h", "i", "j", "k", "l", "m",
      "n", "o", "p", "q", "r", "s", "t", "u", "v", "w", "x", "y", "z">>

(* ASCII lower-casing of one character *)
ToLower(c) ==
    IF \E i \in 1..26 : UpperCase[i] = c
    THEN LowerCase[CHOOSE i \in 1..26 : UpperCase[i] = c]
    ELSE c

-----------------------------------------------------------------------------
(* Python string methods *)

(* the characters float() skips at both ends: tab, LF, VT, FF, CR, space, *)
(* NEL and the no-break space                                             *)
FloatWhitespace ==
    {C0Controls[i] : i \in 9..13} \cup {" ", C1Controls[7], C1Controls[34]}

(* the characters of str.isspace(): those and U+001C to U+001F *)
Whitespace == FloatWhitespace \cup {C0Controls[i] : i \in 28..31}

RECURSIVE LStripSet(_, _)
LStripSet(s, cs) == IF s # <<>> /\ Head(s) \in cs THEN LStripSet(Tail(s), cs) ELSE s

RECURSIVE RStripSet(_, _)
RStripSet(s, cs) ==
    IF s # <<>> /\ s[Len(s)] \in cs THEN RStripSet(SubSeq(s, 1, Len(s) - 1), cs) ELSE s

(* str.strip() *)
Strip(s) == RStripSet(LStripSet(s, Whitespace), Whitespace)

(* str.rstrip(c) *)
RStrip(s, c) == RStripSet(s, {c})

-----------------------------------------------------------------------------
(* format_dot: app.py lines 27-33 *)

Raised(msg) == [raised |-> TRUE, msg |-> msg]

Returned(v) == [raised |-> FALSE, value |-> v]

NAN == <<"n", "a", "n">>

INF == <<"i", "n", "f">>

INFINITY == <<"i", "n", "f", "i", "n", "i", "t", "y">>

(* underscores of a numeric literal: each one stands between two digits *)
UnderscoresValid(s) ==
    \A i \in 1..Len(s) :
        s[i] = "_" => /\ 1 < i
                      /\ i < Len(s)
                      /\ IsDigitChar(s[i - 1])
                      /\ IsDigitChar(s[i + 1])

WithoutUnderscores(s) == SelectSeq(s, LAMBDA c : c # "_")

(* the first position from i on that holds no digit *)
RECURSIVE DigitRun(_, _)
DigitRun(s, i) == IF i <= Len(s) /\ IsDigitChar(s[i]) THEN DigitRun(s, i + 1) ELSE i

CharsToDigits(s) == Norm([i \in 1..Len(s) |-> CharDigit(s[i])])

(* beyond these decimal magnitudes a literal is infinite, or zero *)
MaxDecimalExponent == 310

MinDecimalExponent == 0 - 330

(* the float parser reads an exponent of at most MaxExponentDigits        *)
(* significant digits and takes a longer one as MaxAbsExp; it rejects a   *)
(* literal of more than MaxDigits digits, leading zeros not counted, or   *)
(* of more than MaxDigits digits after the point                          *)
MaxExponentDigits == 9

MaxAbsExp == 1100000000

MaxDigits == 1000000000

(* digits * 10^exp10 as a double *)
DecimalToDouble(neg, digits, exp10) ==
    IF digits = <<>> THEN Finite(neg, <<>>, 0)
    ELSE IF Len(digits) + exp10 > MaxDecimalExponent THEN Infinite(neg)
    ELSE IF Len(digits) + exp10 < MinDecimalExponent THEN Finite(neg, <<>>, 0)
    ELSE IF exp10 >= 0 THEN NatToDouble(neg, digits \o Zeros(exp10))
    ELSE RoundToDouble(neg, digits, <<1>> \o Zeros(0 - exp10), 0)

(* a decimal literal without its sign: digits, an optional point and more *)
(* digits (one digit at least), an optional exponent                      *)
ParseDecimal(neg, s) ==
    LET a == DigitRun(s, 1)
        hasPoint == a <= Len(s) /\ s[a] = "."
        b == IF hasPoint THEN DigitRun(s, a + 1) ELSE a
        intPart == SubSeq(s, 1, a - 1)
        fracPart == IF hasPoint THEN SubSeq(s, a + 1, b - 1) ELSE <<>>
        hasExp == b <= Len(s) /\ s[b] \in {"e", "E"}
        hasExpSign == hasExp /\ b + 1 <= Len(s) /\ s[b + 1] \in {"+", "-"}
        expNeg == hasExpSign /\ s[b + 1] = "-"
        c == IF hasExpSign THEN b + 2 ELSE b + 1
        d == IF hasExp THEN DigitRun(s, c) ELSE b
        expDigits == IF hasExp THEN CharsToDigits(SubSeq(s, c, d - 1)) ELSE <<>>
        abs_exp == IF Len(expDigits) > MaxExponentDigits THEN MaxAbsExp
                   ELSE ToNat(expDigits)
        exp == IF expNeg THEN 0 - abs_exp ELSE abs_exp
        ndigits == IF CharsToDigits(intPart) # <<>>
                   THEN Len(CharsToDigits(intPart)) + Len(fracPart)
                   ELSE Len(CharsToDigits(fracPart))
    IN  IF /\ Len(intPart) + Len(fracPart) >= 1
           /\ d = Len(s) + 1
           /\ (hasExp => d > c)
           /\ ndigits <= MaxDigits
           /\ Len(fracPart) <= MaxDigits
        THEN Returned(DecimalToDouble(neg, CharsToDigits(intPart \o fracPart),
                                      exp - Len(fracPart)))
        ELSE Raised("ValueError")

(* float(s) for a string *)
ParseFloat(str) ==
    LET s == RStripSet(LStripSet(str, FloatWhitespace), FloatWhitespace)
    IN  IF ~UnderscoresValid(s) THEN Raised("ValueError")
        ELSE LET t == WithoutUnderscores(s)
                 signed == t # <<>> /\ t[1] \in {"+", "-"}
                 neg == signed /\ t[1] = "-"
                 body == IF signed THEN Tail(t) ELSE t
                 word == [i \in 1..Len(body) |-> ToLower(body[i])]
             IN  IF word = NAN THEN Returned(NotANumber)
                 ELSE IF word = INF \/ word = INFINITY THEN Returned(Infinite(neg))
                 ELSE ParseDecimal(neg, body)

(* float(raw_amount) *)
PyFloat(v) ==
    IF v.t = "int" THEN
        Only({
            IF x.kind = "inf" THEN Raised("OverflowError") ELSE Returned(x)
              : x \in {IntToDouble(Norm(v.d))}})
    ELSE IF v.t = "str" THEN ParseFloat(v.s)
    ELSE Raised("TypeError")

(* 10 ** decimals as the divisor: an int for decimals >= 0, which the  *)
(* division converts to a double (infinite here when that conversion  *)
(* overflows), and for decimals < 0 the double nearest to 10^decimals  *)
PowerOfTen(decimals) ==
    IF decimals >= 0 THEN IntToDouble(<<1>> \o Zeros(decimals))
    ELSE DecimalToDouble(FALSE, <<1>>, decimals)

(* val / (10 ** decimals) *)
DoubleDiv(x, decimals) ==
    Only({
        IF y.kind = "inf" THEN Raised("OverflowError")
        ELSE IF y.m = <<>> THEN Raised("ZeroDivisionError")
        ELSE IF x.kind = "finite" THEN Returned(DoubleQuotient(x, y))
        ELSE Returned(x)
          : y \in {PowerOfTen(decimals)}})

(* the thousands separators of the "," format option *)
Grouped(s) ==
    LET n == Len(s)
        commas == IF n = 0 THEN 0 ELSE (n - 1) \div 3
    IN  [j \in 1..(n + commas) |->
            LET r == n + commas + 1 - j
            IN  IF r % 4 = 0 THEN "," ELSE s[n + 1 - (r - r \div 4)]]

(* f"{val:,.10f}" *)
FormatGroupedFixed(x, places) ==
    IF x.kind = "nan" THEN NAN
    ELSE IF x.kind = "inf" THEN (IF x.neg THEN <<"-">> ELSE <<>>) \o INF
    ELSE Only({
             LET padded == IF Len(i) <= places THEN Zeros(places + 1 - Len(i)) \o i ELSE i
                 n == Len(padded)
                 whole == [k \in 1..(n - places) |-> DigitChar(padded[k])]
                 frac == [k \in 1..places |-> DigitChar(padded[n - places + k])]
             IN  (IF x.neg THEN <<"-">> ELSE <<>>) \o Grouped(whole) \o <<".">> \o frac
               : i \in {DoubleScaled(x, places)}})

DOT_SUFFIX == <<" ", "D", "O", "T">>

Precision == 10

DefaultDecimals == 10

(* lines 29-31: the body of the try *)
Formatted(val) ==
    PyStr(RStrip(RStrip(FormatGroupedFixed(val, Precision), "0"), ".") \o DOT_SUFFIX)

format_dot(raw_amount, decimals) ==
    Only({
        IF f.raised THEN PyNone
        ELSE Only({
                 IF val.raised THEN PyNone ELSE Formatted(val.value)
                   : val \in {DoubleDiv(f.value, decimals)}})
          : f \in {PyFloat(raw_amount)}})

-----------------------------------------------------------------------------
(* Python built-ins used by the loop *)

TypeName(v) ==
    CASE v.t = "none" -> <<"N", "o", "n", "e", "T", "y", "p", "e">>
      [] v.t = "str" -> <<"s", "t", "r">>
      [] v.t = "int" -> <<"i", "n", "t">>
      [] v.t = "list" -> <<"l", "i", "s", "t">>
      [] v.t = "dict" -> <<"d", "i", "c", "t">>

(* bool(v) *)
Truthy(v) ==
    CASE v.t = "none" -> FALSE
      [] v.t = "str" -> v.s # <<>>
      [] v.t = "int" -> Norm(v.d) # <<>>
      [] v.t \in {"list", "dict"} -> v.items # <<>>

HasKey(d, key) == \E i \in 1..Len(d.items) : d.items[i][1] = key

(* dict.get(key, default) *)
DictGet(d, key, default) ==
    IF HasKey(d, key)
    THEN d.items[CHOOSE i \in 1..Len(d.items) : d.items[i][1] = key][2]
    ELSE default

(* obj.get(key, default): AttributeError unless obj is a dict *)
Get(obj, key, default) ==
    IF obj.t = "dict" THEN Returned(DictGet(obj, key, default))
    ELSE Raised(<<"'">> \o TypeName(obj) \o <<"'">> \o <<" ", "o", "b", "j", "e", "c", "t", " ", "h", "a", "s", " ", "n", "o", " ", "a", "t", "t", "r", "i", "b", "u", "t", "e", " ", "'", "g", "e", "t", "'">>)

(* iter(obj): the items a for loop visits, TypeError when obj is not iterable *)
Iterate(obj) ==
    CASE obj.t \in {"none", "int"} ->
            Raised(<<"'">> \o TypeName(obj) \o <<"'">> \o <<" ", "o", "b", "j", "e", "c", "t", " ", "i", "s", " ", "n", "o", "t", " ", "i", "t", "e", "r", "a", "b", "l", "e">>)
      [] obj.t = "list" -> Returned(obj.items)
      [] obj.t = "str" -> Returned([i \in 1..Len(obj.s) |-> PyStr(<<obj.s[i]>>)])
      [] obj.t = "dict" -> Returned([i \in 1..Len(obj.items) |-> PyStr(obj.items[i][1])])

ReprQuote(s) ==
    IF (\E i \in 1..Len(s) : s[i] = "'") /\ ~(\E i \in 1..Len(s) : s[i] = "\"")
    THEN "\"" ELSE "'"

ReprChar(c, q) ==
    CASE c = "\\" -> <<"\\", "\\">>
      [] c = q -> <<"\\", c>>
      [] c = "\n" -> <<"\\", "n">>
      [] c = "\t" -> <<"\\", "t">>
      [] c = "\r" -> <<"\\", "r">>
      [] OTHER ->
            LET code == NonPrintableCode(c)
            IN  IF code = 0 THEN <<c>>
                ELSE <<"\\", "x", HexDigit(code \div 16), HexDigit(code % 16)>>

ReprStr(s) ==
    LET q == ReprQuote(s)
    IN  <<q>> \o Concat([i \in 1..Len(s) |-> ReprChar(s[i], q)]) \o <<q>>

RECURSIVE JoinComma(_)
JoinComma(ss) ==
    IF ss = <<>> THEN <<>>
    ELSE IF Len(ss) = 1 THEN ss[1]
    ELSE ss[1] \o <<",", " ">> \o JoinComma(Tail(ss))

(* repr(v) *)
RECURSIVE Repr(_)
Repr(v) ==
    CASE v.t = "none" -> <<"N", "o", "n", "e">>
      [] v.t = "str" -> ReprStr(v.s)
      [] v.t = "int" -> DigitsToChars(v.d)
      [] v.t = "list" ->
            <<"[">> \o JoinComma([i \in 1..Len(v.items) |-> Repr(v.items[i])]) \o <<"]">>
      [] v.t = "dict" ->
            <<"{">> \o JoinComma([i \in 1..Len(v.items) |->
                        ReprStr(v.items[i][1]) \o <<":", " ">> \o Repr(v.items[i][2])])
                   \o <<"}">>

(* str(v) *)
Str(v) == IF v.t = "str" THEN v.s ELSE Repr(v)

-----------------------------------------------------------------------------
(* extract_address: app.py lines 36-40 *)

K_Id == <<"I", "d">>

extract_address_mut_always_str(value) == PyStr(Str(value))

extract_address(value) ==
    IF value.t = "dict" THEN DictGet(value, K_Id, PyStr(Str(value)))
    ELSE PyStr(Str(value))

-----------------------------------------------------------------------------
(* The fetch loop: app.py lines 62-146 *)

K_account_id == <<"a", "c", "c", "o", "u", "n", "t", "_", "i", "d">>

K_fee == <<"f", "e", "e">>

K_fee_used == <<"f", "e", "e", "_", "u", "s", "e", "d">>

K_transfer == <<"t", "r", "a", "n", "s", "f", "e", "r">>

K_amount == <<"a", "m", "o", "u", "n", "t">>

K_from == <<"f", "r", "o", "m">>

K_to == <<"t", "o">>

K_params == <<"p", "a", "r", "a", "m", "s">>

K_name == <<"n", "a", "m", "e">>

K_value == <<"v", "a", "l", "u", "e">>

K_dest == <<"d", "e", "s", "t">>

K_message == <<"m", "e", "s", "s", "a", "g", "e">>

K_data == <<"d", "a", "t", "a">>

SUCCESS == <<"S", "u", "c", "c", "e", "s", "s">>

NOT_FOUND == <<"N", "o", "t", " ", "F", "o", "u", "n", "d">>

PENDING == <<"P", "e", "n", "d", "i", "n", "g">>

NOT_AVAILABLE == <<"N", "/", "A">>

API_ERROR_PREFIX == <<"A", "P", "I", " ", "E", "r", "r", "o", "r", ":", " ">>

ERROR_PREFIX == <<"E", "r", "r", "o", "r", ":", " ">>

ZERO == <<"0">>

HTTP_OK == 200

(* tx_hash = str(row[hash_col]).strip() *)
TxHash(cell) == Strip(Str(cell))

(* line 67-69: the per-row variables *)
InitLocals ==
    [est_fee |-> PyNone, used_fee |-> PyNone, transfer_amount |-> PyNone,
     sender |-> PyNone, from_addr |-> PyNone, to_addr |-> PyNone,
     status_msg |-> PyStr(PENDING)]

(* how a block of the try body ends: normally, or by raising with the *)
(* variables assigned so far                                          *)
Completed(loc) == [raised |-> FALSE, loc |-> loc]

Threw(msg, loc) == [raised |-> TRUE, msg |-> msg, loc |-> loc]

(* lines 93-97, PLAN A *)
PlanA(transfer_obj, loc) ==
    LET raw == Get(transfer_obj, K_amount, PyNone)
    IN  IF raw.raised THEN Threw(raw.msg, loc)
        ELSE Completed([loc EXCEPT
                !.transfer_amount = format_dot(raw.value, DefaultDecimals),
                !.from_addr = DictGet(transfer_obj, K_from, PyNone),
                !.to_addr = DictGet(transfer_obj, K_to, PyNone)])

(* lines 107-118: the for loop over params *)
RECURSIVE ParamLoop(_, _, _)
ParamLoop(items, loc, found_val) ==
    IF items = <<>> THEN [raised |-> FALSE, loc |-> loc, found_val |-> found_val]
    ELSE LET p == Head(items)
             name == Get(p, K_name, PyNone)
         IN  IF name.raised
             THEN [raised |-> TRUE, msg |-> name.msg, loc |-> loc, found_val |-> found_val]
             ELSE LET value == DictGet(p, K_value, PyNone)
                      isValue == name.value = PyStr(K_value)
                      isDest == name.value = PyStr(K_dest)
                      loc1 == IF isValue
                              THEN [loc EXCEPT !.transfer_amount =
                                        format_dot(value, DefaultDecimals)]
                              ELSE loc
                      loc2 == IF isDest
                              THEN [loc1 EXCEPT !.to_addr = extract_address(value)]
                              ELSE loc1
                  IN  Only({ParamLoop(Tail(items), l, found_val \/ isValue)
                            : l \in {loc2}})

NotFoundVal_mut_skip(loc) == loc

(* lines 120-122 *)
NotFoundVal(loc) ==
    [loc EXCEPT !.transfer_amount = PyStr(NOT_AVAILABLE),
                !.to_addr = IF ~Truthy(loc.to_addr) THEN PyStr(NOT_AVAILABLE)
                            ELSE loc.to_addr]

(* lines 102-122, PLAN B *)
PlanB(ex_data, loc) ==
    LET loc0 == [loc EXCEPT !.from_addr = loc.sender]
        params == Iterate(DictGet(ex_data, K_params, PyList(<<>>)))
    IN  IF params.raised THEN Threw(params.msg, loc0)
        ELSE Only({
                 IF scan.raised THEN Threw(scan.msg, scan.loc)
                 ELSE IF ~scan.found_val THEN Completed(NotFoundVal(scan.loc))
                 ELSE Completed(scan.loc)
                   : scan \in {ParamLoop(params.value, loc0, FALSE)}})

UsePlanA_mut_inverted(transfer_obj) == ~Truthy(transfer_obj)

(* line 91: if transfer_obj *)
UsePlanA(transfer_obj) == Truthy(transfer_obj)

(* lines 80-124: the branch taken when ex_data is truthy *)
Extract(ex_data, loc) ==
    LET sender == Get(ex_data, K_account_id, PyStr(NOT_AVAILABLE))
    IN  IF sender.raised THEN Threw(sender.msg, loc)
        ELSE LET fees == [loc EXCEPT
                     !.sender = sender.value,
                     !.est_fee = format_dot(DictGet(ex_data, K_fee, PyStr(ZERO)),
                                            DefaultDecimals),
                     !.used_fee = format_dot(DictGet(ex_data, K_fee_used, PyStr(ZERO)),
                                             DefaultDecimals)]
                 transfer_obj == DictGet(ex_data, K_transfer, PyNone)
             IN  Only({
                 Only({
                     IF plan.raised THEN plan
                     ELSE Completed([plan.loc EXCEPT !.status_msg = PyStr(SUCCESS)])
                       : plan \in {IF UsePlanA(transfer_obj) THEN PlanA(transfer_obj, loc1) ELSE PlanB(ex_data, loc1)}})
                       : loc1 \in {fees}})

ApiError_mut_raw_message(data, loc) ==
    LET message == Get(data, K_message, PyNone)
    IN  IF message.raised THEN Threw(message.msg, loc)
        ELSE Completed([loc EXCEPT !.status_msg = PyStr(Str(message.value))])

(* line 128: status_msg = f"API Error: {data.get('message')}" *)
ApiError(data, loc) ==
    LET message == Get(data, K_message, PyNone)
    IN  IF message.raised THEN Threw(message.msg, loc)
        ELSE Completed([loc EXCEPT
                !.status_msg = PyStr(API_ERROR_PREFIX \o Str(message.value))])

(* lines 76-126: the branch of a 200 response with message 'Success' *)
OnSuccess(data, loc) ==
    LET ex_data == DictGet(data, K_data, PyDict(<<>>))
    IN  IF Truthy(ex_data) THEN Extract(ex_data, loc)
        ELSE Completed([loc EXCEPT !.status_msg = PyStr(NOT_FOUND)])

(* lines 72-128: the try body, given what requests.post did *)
TryBody(resp, loc) ==
    IF resp.kind = "exception" THEN Threw(resp.msg, loc)
    ELSE IF resp.json.raised THEN Threw(resp.json.msg, loc)
    ELSE LET data == resp.json.value
         IN  IF resp.status_code = HTTP_OK
             THEN LET message == Get(data, K_message, PyNone)
                  IN  IF message.raised THEN Threw(message.msg, loc)
                      ELSE IF message.value = PyStr(SUCCESS) THEN OnSuccess(data, loc)
                      ELSE ApiError(data, loc)
             ELSE ApiError(data, loc)

(* lines 130-131: except Exception as e *)
OnException(out) ==
    IF out.raised THEN [out.loc EXCEPT !.status_msg = PyStr(ERROR_PREFIX \o out.msg)]
    ELSE out.loc

(* lines 133-142: the record appended for the row *)
ResultRecord(tx_hash, loc) ==
    [TxHash |-> PyStr(tx_hash), Sender |-> loc.sender, From |-> loc.from_addr,
     To |-> loc.to_addr, TransferAmount |-> loc.transfer_amount,
     EstimatedFee |-> loc.est_fee, UsedFee |-> loc.used_fee, Status |-> loc.status_msg]

(* lines 63-142 for one row *)
ProcessRow(cell, resp) ==
    Only({
        Only({ResultRecord(TxHash(cell), loc)
              : loc \in {OnException(out)}})
          : out \in {TryBody(resp, InitLocals)}})

-----------------------------------------------------------------------------
(* What the environment supplies: the uploaded column and the replies of the *)
(* Subscan endpoint                                                          *)

TransportError(msg) == [kind |-> "exception", msg |-> msg]

HttpResponse(status_code, json) ==
    [kind |-> "response", status_code |-> status_code, json |-> json]

(* requests.post raises *)
RespConnectionError ==
    TransportError(<<"C", "o", "n", "n", "e", "c", "t", "i", "o", "n", " ", "r", "e", "f", "u", "s",
    "e", "d">>)

(* a 502 whose body is not JSON: response.json() raises *)
RespBadGateway ==
    HttpResponse(502, Raised(<<"E", "x", "p", "e", "c", "t", "i", "n", "g", " ", "v", "a", "l", "u",
    "e", ":", " ", "l", "i", "n", "e", " ", "1", " ", "c", "o", "l", "u", "m", "n", " ", "1", " ",
    "(", "c", "h", "a", "r", " ", "0", ")">>))

(* a 429 with a JSON error envelope *)
RespRateLimited ==
    HttpResponse(429, Returned(PyDict(<<<<<<"c", "o", "d", "e">>, PyInt(<<2, 0, 0, 0, 8>>)>>,
    <<<<"m", "e", "s", "s", "a", "g", "e">>, PyStr(<<"A", "P", "I", " ", "r", "a", "t", "e", " ",
    "l", "i", "m", "i", "t", " ", "e", "x", "c", "e", "e", "d", "e", "d">>)>>>>)))

(* a 200 whose message is not 'Success' *)
RespInvalidHash ==
    HttpResponse(200, Returned(PyDict(<<<<<<"c", "o", "d", "e">>, PyInt(<<1, 0, 0, 0, 1>>)>>,
    <<<<"m", "e", "s", "s", "a", "g", "e">>, PyStr(<<"I", "n", "v", "a", "l", "i", "d", " ", "h",
    "a", "s", "h">>)>>>>)))

(* a 2xx other than 200 with message 'Success' *)
RespCreated ==
    HttpResponse(201, Returned(PyDict(<<<<<<"m", "e", "s", "s", "a", "g", "e">>, PyStr(<<"S", "u",
    "c", "c", "e", "s", "s">>)>>, <<<<"d", "a", "t", "a">>, PyDict(<<<<<<"a", "c", "c", "o", "u",
    "n", "t", "_", "i", "d">>, PyStr(<<"1", "A", "l", "i", "c", "e">>)>>, <<<<"f", "e", "e">>,
    PyStr(<<"1">>)>>>>)>>>>)))

(* a 200 whose JSON body is not an object *)
RespJsonList ==
    HttpResponse(200, Returned(PyList(<<PyStr(<<"S", "u", "c", "c", "e", "s", "s">>)>>)))

(* message 'Success' with no data *)
RespNotFound ==
    HttpResponse(200, Returned(PyDict(<<<<<<"m", "e", "s", "s", "a", "g", "e">>, PyStr(<<"S", "u",
    "c", "c", "e", "s", "s">>)>>, <<<<"d", "a", "t", "a">>, PyNone>>>>)))

(* a transfer object and a params list *)
RespTransfer ==
    HttpResponse(200, Returned(PyDict(<<<<<<"m", "e", "s", "s", "a", "g", "e">>, PyStr(<<"S", "u",
    "c", "c", "e", "s", "s">>)>>, <<<<"d", "a", "t", "a">>, PyDict(<<<<<<"a", "c", "c", "o", "u",
    "n", "t", "_", "i", "d">>, PyStr(<<"1", "A", "l", "i", "c", "e">>)>>, <<<<"f", "e", "e">>,
    PyStr(<<"1", "5", "6", "0", "0", "0", "0", "0", "0">>)>>, <<<<"f", "e", "e", "_", "u", "s", "e",
    "d">>, PyStr(<<"1", "5", "5", "9", "9", "9", "9", "9", "9">>)>>, <<<<"t", "r", "a", "n", "s",
    "f", "e", "r">>, PyDict(<<<<<<"f", "r", "o", "m">>, PyStr(<<"1", "A", "l", "i", "c", "e">>)>>,
    <<<<"t", "o">>, PyStr(<<"1", "B", "o", "b">>)>>, <<<<"a", "m", "o", "u", "n", "t">>,
    PyStr(<<"1", "2", "5", "0", "0", "0", "0", "0", "0", "0", "0">>)>>>>)>>, <<<<"p", "a", "r", "a",
    "m", "s">>, PyList(<<PyDict(<<<<<<"n", "a", "m", "e">>, PyStr(<<"d", "e", "s", "t">>)>>,
    <<<<"v", "a", "l", "u", "e">>, PyDict(<<<<<<"I", "d">>, PyStr(<<"1", "C", "a", "r", "o",
    "l">>)>>>>)>>>>), PyDict(<<<<<<"n", "a", "m", "e">>, PyStr(<<"v", "a", "l", "u", "e">>)>>,
    <<<<"v", "a", "l", "u", "e">>, PyStr(<<"7", "0", "0", "0", "0", "0", "0", "0", "0", "0",
    "0">>)>>>>)>>)>>>>)>>>>)))

(* a transfer object without an amount, a numeric fee, no fee_used *)
RespTransferNoAmount ==
    HttpResponse(200, Returned(PyDict(<<<<<<"m", "e", "s", "s", "a", "g", "e">>, PyStr(<<"S", "u",
    "c", "c", "e", "s", "s">>)>>, <<<<"d", "a", "t", "a">>, PyDict(<<<<<<"a", "c", "c", "o", "u",
    "n", "t", "_", "i", "d">>, PyStr(<<"1", "A", "l", "i", "c", "e">>)>>, <<<<"f", "e", "e">>,
    PyInt(<<1, 5, 6, 0, 0, 0, 0, 0, 0>>)>>, <<<<"t", "r", "a", "n", "s", "f", "e", "r">>,
    PyDict(<<<<<<"f", "r", "o", "m">>, PyStr(<<"1", "A", "l", "i", "c", "e">>)>>, <<<<"t", "o">>,
    PyStr(<<"1", "B", "o", "b">>)>>>>)>>>>)>>>>)))

(* an empty transfer object and a params list *)
RespEmptyTransfer ==
    HttpResponse(200, Returned(PyDict(<<<<<<"m", "e", "s", "s", "a", "g", "e">>, PyStr(<<"S", "u",
    "c", "c", "e", "s", "s">>)>>, <<<<"d", "a", "t", "a">>, PyDict(<<<<<<"a", "c", "c", "o", "u",
    "n", "t", "_", "i", "d">>, PyStr(<<"1", "A", "l", "i", "c", "e">>)>>, <<<<"f", "e", "e">>,
    PyStr(<<"1", "5", "6", "0", "0", "0", "0", "0", "0">>)>>, <<<<"f", "e", "e", "_", "u", "s", "e",
    "d">>, PyStr(<<"0">>)>>, <<<<"t", "r", "a", "n", "s", "f", "e", "r">>, PyDict(<<>>)>>, <<<<"p",
    "a", "r", "a", "m", "s">>, PyList(<<PyDict(<<<<<<"n", "a", "m", "e">>, PyStr(<<"d", "e", "s",
    "t">>)>>, <<<<"v", "a", "l", "u", "e">>, PyDict(<<<<<<"I", "d">>, PyStr(<<"1", "C", "a", "r",
    "o", "l">>)>>>>)>>>>), PyDict(<<<<<<"n", "a", "m", "e">>, PyStr(<<"v", "a", "l", "u", "e">>)>>,
    <<<<"v", "a", "l", "u", "e">>, PyStr(<<"7", "0", "0", "0", "0", "0", "0", "0", "0", "0",
    "0">>)>>>>)>>)>>>>)>>>>)))

(* no transfer object; params with dest and a value above 2^53 *)
RespParams ==
    HttpResponse(200, Returned(PyDict(<<<<<<"m", "e", "s", "s", "a", "g", "e">>, PyStr(<<"S", "u",
    "c", "c", "e", "s", "s">>)>>, <<<<"d", "a", "t", "a">>, PyDict(<<<<<<"a", "c", "c", "o", "u",
    "n", "t", "_", "i", "d">>, PyStr(<<"1", "A", "l", "i", "c", "e">>)>>, <<<<"f", "e", "e">>,
    PyStr(<<"1", "5", "6", "0", "0", "0", "0", "0", "0">>)>>, <<<<"f", "e", "e", "_", "u", "s", "e",
    "d">>, PyStr(<<"1", "5", "5", "9", "9", "9", "9", "9", "9">>)>>, <<<<"t", "r", "a", "n", "s",
    "f", "e", "r">>, PyNone>>, <<<<"p", "a", "r", "a", "m", "s">>, PyList(<<PyDict(<<<<<<"n", "a",
    "m", "e">>, PyStr(<<"d", "e", "s", "t">>)>>, <<<<"v", "a", "l", "u", "e">>, PyDict(<<<<<<"I",
    "d">>, PyStr(<<"1", "C", "a", "r", "o", "l">>)>>>>)>>>>), PyDict(<<<<<<"n", "a", "m", "e">>,
    PyStr(<<"v", "a", "l", "u", "e">>)>>, <<<<"v", "a", "l", "u", "e">>, PyInt(<<9, 0, 0, 7, 1, 9,
    9, 2, 5, 4, 7, 4, 0, 9, 9, 3>>)>>>>)>>)>>>>)>>>>)))

(* params without a parameter named value *)
RespParamsNoValue ==
    HttpResponse(200, Returned(PyDict(<<<<<<"m", "e", "s", "s", "a", "g", "e">>, PyStr(<<"S", "u",
    "c", "c", "e", "s", "s">>)>>, <<<<"d", "a", "t", "a">>, PyDict(<<<<<<"a", "c", "c", "o", "u",
    "n", "t", "_", "i", "d">>, PyStr(<<"1", "A", "l", "i", "c", "e">>)>>, <<<<"f", "e", "e">>,
    PyStr(<<"1", "5", "6", "0", "0", "0", "0", "0", "0">>)>>, <<<<"f", "e", "e", "_", "u", "s", "e",
    "d">>, PyStr(<<"1", "5", "5", "9", "9", "9", "9", "9", "9">>)>>, <<<<"p", "a", "r", "a", "m",
    "s">>, PyList(<<PyDict(<<<<<<"n", "a", "m", "e">>, PyStr(<<"d", "e", "s", "t">>)>>, <<<<"v",
    "a", "l", "u", "e">>, PyStr(<<"1", "D", "a", "v", "e">>)>>>>), PyDict(<<<<<<"n", "a", "m",
    "e">>, PyStr(<<"k", "e", "e", "p", "_", "a", "l", "i", "v", "e">>)>>, <<<<"v", "a", "l", "u",
    "e">>, PyStr(<<"t", "r", "u", "e">>)>>>>)>>)>>>>)>>>>)))

(* neither transfer, params nor account_id *)
RespNoParams ==
    HttpResponse(200, Returned(PyDict(<<<<<<"m", "e", "s", "s", "a", "g", "e">>, PyStr(<<"S", "u",
    "c", "c", "e", "s", "s">>)>>, <<<<"d", "a", "t", "a">>, PyDict(<<<<<<"f", "e", "e">>,
    PyStr(<<"1", "5", "6", "0", "0", "0", "0", "0", "0">>)>>, <<<<"f", "e", "e", "_", "u", "s", "e",
    "d">>, PyStr(<<"n", "a", "n">>)>>>>)>>>>)))

(* params whose value is not numeric *)
RespParamsBadValue ==
    HttpResponse(200, Returned(PyDict(<<<<<<"m", "e", "s", "s", "a", "g", "e">>, PyStr(<<"S", "u",
    "c", "c", "e", "s", "s">>)>>, <<<<"d", "a", "t", "a">>, PyDict(<<<<<<"a", "c", "c", "o", "u",
    "n", "t", "_", "i", "d">>, PyStr(<<"1", "A", "l", "i", "c", "e">>)>>, <<<<"f", "e", "e">>,
    PyStr(<<"1", "5", "6", "0", "0", "0", "0", "0", "0">>)>>, <<<<"f", "e", "e", "_", "u", "s", "e",
    "d">>, PyStr(<<"1", "5", "5", "9", "9", "9", "9", "9", "9">>)>>, <<<<"p", "a", "r", "a", "m",
    "s">>, PyList(<<PyDict(<<<<<<"n", "a", "m", "e">>, PyStr(<<"v", "a", "l", "u", "e">>)>>,
    <<<<"v", "a", "l", "u", "e">>, PyStr(<<"m", "a", "x">>)>>>>)>>)>>>>)>>>>)))

(* params with a value and no dest *)
RespParamsNoDest ==
    HttpResponse(200, Returned(PyDict(<<<<<<"m", "e", "s", "s", "a", "g", "e">>, PyStr(<<"S", "u",
    "c", "c", "e", "s", "s">>)>>, <<<<"d", "a", "t", "a">>, PyDict(<<<<<<"a", "c", "c", "o", "u",
    "n", "t", "_", "i", "d">>, PyStr(<<"1", "A", "l", "i", "c", "e">>)>>, <<<<"f", "e", "e">>,
    PyStr(<<"1", "5", "6", "0", "0", "0", "0", "0", "0">>)>>, <<<<"f", "e", "e", "_", "u", "s", "e",
    "d">>, PyStr(<<"1", "5", "5", "9", "9", "9", "9", "9", "9">>)>>, <<<<"p", "a", "r", "a", "m",
    "s">>, PyList(<<PyDict(<<<<<<"n", "a", "m", "e">>, PyStr(<<"v", "a", "l", "u", "e">>)>>,
    <<<<"v", "a", "l", "u", "e">>, PyStr(<<"1">>)>>>>)>>)>>>>)>>>>)))

(* params whose second element is not an object *)
RespParamsMalformed ==
    HttpResponse(200, Returned(PyDict(<<<<<<"m", "e", "s", "s", "a", "g", "e">>, PyStr(<<"S", "u",
    "c", "c", "e", "s", "s">>)>>, <<<<"d", "a", "t", "a">>, PyDict(<<<<<<"a", "c", "c", "o", "u",
    "n", "t", "_", "i", "d">>, PyStr(<<"1", "A", "l", "i", "c", "e">>)>>, <<<<"f", "e", "e">>,
    PyStr(<<"1", "5", "6", "0", "0", "0", "0", "0", "0">>)>>, <<<<"f", "e", "e", "_", "u", "s", "e",
    "d">>, PyStr(<<"1", "5", "5", "9", "9", "9", "9", "9", "9">>)>>, <<<<"p", "a", "r", "a", "m",
    "s">>, PyList(<<PyDict(<<<<<<"n", "a", "m", "e">>, PyStr(<<"v", "a", "l", "u", "e">>)>>,
    <<<<"v", "a", "l", "u", "e">>, PyStr(<<"7", "0", "0", "0", "0", "0", "0", "0", "0", "0",
    "0">>)>>>>), PyStr(<<"d", "e", "s", "t">>)>>)>>>>)>>>>)))

Responses ==
    {RespConnectionError, RespBadGateway, RespRateLimited, RespInvalidHash, RespCreated,
     RespJsonList, RespNotFound, RespTransfer, RespTransferNoAmount, RespEmptyTransfer, RespParams,
     RespParamsNoValue, RespNoParams, RespParamsBadValue, RespParamsNoDest, RespParamsMalformed}

MaxRows == 2

(* cells of the hash column as pandas reads them: text with stray whitespace, *)
(* a number, text ending in a newline                                        *)
SampleColumn ==
    <<PyStr(<<" ", "0", "x", "1", "a", "2", "b", " ">>),
      PyInt(<<7>>),
      PyStr(<<"\f", "0", "x", "c", "3", "\n">>)>>

Cell(i) == SampleColumn[((i - 1) % Len(SampleColumn)) + 1]

Tables == {[i \in 1..n |-> Cell(i + o)] : n \in 0..MaxRows, o \in 0..(Len(SampleColumn) - 1)}

NoResponse == [kind |-> "none"]

NoCall == [fn |-> "none"]

NoReturn == [done |-> FALSE]

-----------------------------------------------------------------------------
(* The run started by the "Fetch Data" button *)

Init ==
    /\ df \in Tables
    /\ index = 0
    /\ pc = IF df = <<>> THEN "done" ELSE "request"
    /\ response = NoResponse
    /\ requests = <<>>
    /\ replies = <<>>
    /\ results = <<>>
    /\ call = NoCall
    /\ ret = NoReturn

(* lines 63-72: the row's hash is posted and the endpoint replies *)
Request ==
    /\ pc = "request"
    /\ \E r \in Responses : response' = r
    /\ requests' = Append(requests, TxHash(df[index + 1]))
    /\ pc' = "respond"
    /\ UNCHANGED <<df, index, replies, results, call, ret>>

Handle_mut_propagate ==
    /\ pc = "respond"
    /\ LET caught == response.kind = "exception" \/ ~TryBody(response, InitLocals).raised
       IN  /\ results' = IF caught THEN Append(results, ProcessRow(df[index + 1], response))
                          ELSE results
           /\ index' = IF caught THEN index + 1 ELSE index
           /\ pc' = IF ~caught THEN "crashed"
                    ELSE IF index + 1 < Len(df) THEN "request" ELSE "done"
    /\ replies' = Append(replies, response)
    /\ response' = NoResponse
    /\ UNCHANGED <<df, requests, call, ret>>

Handle_mut_retry ==
    /\ pc = "respond"
    /\ LET rec == ProcessRow(df[index + 1], response)
           failed == response.kind = "exception"
       IN  /\ results' = IF failed THEN results ELSE Append(results, rec)
           /\ index' = IF failed THEN index ELSE index + 1
           /\ pc' = IF failed \/ index + 1 < Len(df) THEN "request" ELSE "done"
    /\ replies' = Append(replies, response)
    /\ response' = NoResponse
    /\ UNCHANGED <<df, requests, call, ret>>

(* lines 73-146: the reply is parsed, the record appended, the loop advances *)
Handle ==
    /\ pc = "respond"
    /\ results' = Append(results, ProcessRow(df[index + 1], response))
    /\ replies' = Append(replies, response)
    /\ response' = NoResponse
    /\ index' = index + 1
    /\ pc' = IF index + 1 < Len(df) THEN "request" ELSE "done"
    /\ UNCHANGED <<df, requests, call, ret>>

Next == Request \/ Handle

Spec == Init /\ [][Next]_vars

-----------------------------------------------------------------------------
(* The helpers called on their own *)

MaxDecimals == 12

(* raw amounts: integers, digit strings, signed, fractional and exponent     *)
(* literals, strings float() rejects or reads as nan and inf, a missing      *)
(* value, structured values                                                  *)
RawAmounts ==
    {PyInt(<<0>>),
     PyInt(<<1>>),
     PyInt(<<5>>),
     PyInt(<<2, 5>>),
     PyInt(<<1, 2, 3, 4, 5, 6, 7>>),
     PyInt(<<1, 2, 5, 0, 0, 0, 0, 0, 0, 0, 0>>),
     PyInt(<<1, 0, 0, 0, 0, 0, 0, 0, 0, 0, 0, 0, 0, 0, 0, 1>>),
     PyStr(<<"1", "5", "6", "0", "0", "0", "0", "0", "0">>),
     PyStr(<<"9", "0", "0", "7", "1", "9", "9", "2", "5", "4", "7", "4", "0", "9", "9", "3">>),
     PyStr(<<"0", "0", "1", "2">>),
     PyStr(<<" ", "1", "2", " ">>),
     PyStr(<<"a", "b", "c">>),
     PyStr(<<>>),
     PyStr(<<"m", "a", "x">>),
     PyStr(<<"0", "x", "1", "f">>),
     PyStr(<<"n", "a", "n">>),
     PyStr(<<"i", "n", "f">>),
     PyStr(<<"1", ".", "5">>),
     PyStr(<<"-", "1", "2", "5", "0", "0", "0", "0", "0", "0", "0", "0">>),
     PyStr(<<"+", ".", "5", "e", "1", "2">>),
     PyStr(<<"1", "E", "-", "3">>),
     PyStr(<<"1", "_", "0", "0", "0">>),
     PyStr(<<"1", "_", "_", "0">>),
     PyStr(<<"1", "e">>),
     PyStr(<<"-", "0">>),
     PyStr(<<"-", "I", "n", "f", "i", "n", "i", "t", "y">>),
     PyStr(<<"N", "a", "N">>),
     PyStr(<<"\f", "1", "2", "\n">>),
     PyStr(<<C0Controls[28], "1", "2">>),
     PyStr(<<"1", " ", "2">>),
     PyNone,
     PyDict(<<>>),
     PyDict(<<<<<<"I", "d">>, PyStr(<<"1", "C", "a", "r", "o", "l">>)>>>>),
     PyList(<<PyStr(<<"1">>)>>)}

AddressValues ==
    {PyStr(<<"1", "D", "a", "v", "e">>),
     PyStr(<<>>),
     PyStr(<<" ", "1", "E", "v", "e", " ">>),
     PyStr(<<"i", "t", "'", "s">>),
     PyDict(<<<<<<"I", "d">>, PyStr(<<"1", "C", "a", "r", "o", "l">>)>>>>),
     PyDict(<<<<<<"I", "d">>, PyStr(<<"1", "C", "a", "r", "o", "l">>)>>, <<<<"I", "n", "d", "e", "x">>, PyInt(<<4>>)>>>>),
     PyDict(<<<<<<"I", "n", "d", "e", "x">>, PyInt(<<5>>)>>>>),
     PyDict(<<<<<<"A", "d", "d", "r", "e", "s", "s", "3", "2">>, PyStr(<<"0", "x", "a", "b">>)>>>>),
     PyDict(<<>>),
     PyDict(<<<<<<"I", "d">>, PyNone>>>>),
     PyDict(<<<<<<"I", "d">>, PyInt(<<7>>)>>>>),
     PyDict(<<<<<<"I", "d">>, PyDict(<<<<<<"R", "a", "w">>, PyStr(<<"0", "x", "0", "1">>)>>>>)>>>>),
     PyDict(<<<<<<"R", "a", "w">>, PyList(<<PyStr(<<"a">>), PyInt(<<1>>)>>)>>>>),
     PyInt(<<5>>),
     PyInt(<<0>>),
     PyNone,
     PyList(<<PyStr(<<"1", "D", "a", "v", "e">>)>>),
     PyList(<<>>)}

(* negative exponents: 10 ** decimals is then a float below one *)
NegativeDecimals == {0 - 1, 0 - 3}

Calls ==
    {[fn |-> "format_dot", raw |-> r, decimals |-> d] :
        r \in RawAmounts, d \in NegativeDecimals \cup 0..MaxDecimals}
    \cup {[fn |-> "extract_address", value |-> v] : v \in AddressValues}

InitHelpers ==
    /\ call \in Calls
    /\ ret = NoReturn
    /\ df = <<>>
    /\ index = 0
    /\ pc = "idle"
    /\ response = NoResponse
    /\ requests = <<>>
    /\ replies = <<>>
    /\ results = <<>>

CallFormatDot ==
    /\ call.fn = "format_dot"
    /\ ~ret.done
    /\ ret' = [done |-> TRUE, value |-> format_dot(call.raw, call.decimals)]
    /\ UNCHANGED <<df, pc, index, response, requests, replies, results, call>>

CallExtractAddress ==
    /\ call.fn = "extract_address"
    /\ ~ret.done
    /\ ret' = [done |-> TRUE, value |-> extract_address(call.value)]
    /\ UNCHANGED <<df, pc, index, response, requests, replies, results, call>>

NextHelpers == CallFormatDot \/ CallExtractAddress

SpecHelpers == InitHelpers /\ [][NextHelpers]_vars

-----------------------------------------------------------------------------
(* Properties of the fetch loop, checked under Spec *)

IsJsonObject(r) == r.kind = "response" /\ ~r.json.raised /\ r.json.value.t = "dict"

Message(r) == DictGet(r.json.value, K_message, PyNone)

ExData(r) == DictGet(r.json.value, K_data, PyDict(<<>>))

(* a 200 reply with message 'Success' whose data is a non-empty object *)
IsSuccessWithData(r) ==
    /\ IsJsonObject(r)
    /\ r.status_code = HTTP_OK
    /\ Message(r) = PyStr(SUCCESS)
    /\ ExData(r).t = "dict"
    /\ ExData(r).items # <<>>

TransferOf(r) == DictGet(ExData(r), K_transfer, PyNone)

ParamsOf(r) == DictGet(ExData(r), K_params, PyList(<<>>))

HasTransferAndParams(r) ==
    /\ IsSuccessWithData(r)
    /\ TransferOf(r).t = "dict"
    /\ HasKey(ExData(r), K_params)
    /\ ParamsOf(r).t = "list"

TakenFromTransfer(rec, transfer_obj) ==
    /\ rec.TransferAmount = format_dot(DictGet(transfer_obj, K_amount, PyNone), DefaultDecimals)
    /\ rec.From = DictGet(transfer_obj, K_from, PyNone)
    /\ rec.To = DictGet(transfer_obj, K_to, PyNone)

Rows == 1..Len(results)

(* the loop is at its end or at a step it can take *)
NoStuckRow ==
    \/ pc = "done" /\ index = Len(df)
    \/ pc = "request" /\ index < Len(df) /\ response = NoResponse
    \/ pc = "respond" /\ index < Len(df) /\ response \in Responses

(* C1: the loop ends, with exactly one record per input row and in input    *)
(* order, record i carrying the stripped string form of row i's hash,       *)
(* whatever the outcome of each row                                         *)
C1_OneRecordPerRow ==
    /\ NoStuckRow
    /\ Len(results) = index
    /\ Len(results) <= Len(df)
    /\ pc = "done" => Len(results) = Len(df)
    /\ \A i \in Rows : results[i].TxHash = PyStr(Strip(Str(df[i])))

C1_Witness ==
    /\ pc = "done"
    /\ Len(results) = MaxRows
    /\ \E i \in Rows : replies[i].kind = "exception"
    /\ \E i \in Rows : replies[i].kind = "response" /\ replies[i].json.raised
    /\ \E i \in Rows : df[i].t = "str" /\ results[i].TxHash.s # df[i].s

(* C2 as stated: with a transfer object and a params list in the data, the  *)
(* amount, From and To come from the transfer object                        *)
C2_Original_AnyTransferObject ==
    \A i \in Rows :
        HasTransferAndParams(replies[i]) => TakenFromTransfer(results[i], TransferOf(replies[i]))

(* the parameters of the list that are named name *)
Named(params, name) ==
    {j \in 1..Len(params.items) :
        DictGet(params.items[j], K_name, PyNone) = PyStr(name)}

(* lines 102-122: From is the sender, the amount is formatted from a       *)
(* parameter named 'value' and To extracted from a parameter named 'dest'  *)
ScannedFromParams(rec, params) ==
    /\ rec.From = rec.Sender
    /\ IF Named(params, K_value) = {} THEN rec.TransferAmount = PyStr(NOT_AVAILABLE)
       ELSE \E j \in Named(params, K_value) :
                rec.TransferAmount =
                    format_dot(DictGet(params.items[j], K_value, PyNone), DefaultDecimals)
    /\ Named(params, K_dest) # {} =>
           \E j \in Named(params, K_dest) :
               rec.To = extract_address(DictGet(params.items[j], K_value, PyNone))

(* C2 amended: with a non-empty transfer object and a params list in the    *)
(* data, the amount, From and To come from the transfer object and not from *)
(* the 'value' and 'dest' parameters; with an empty transfer object and a   *)
(* list of parameters the list is scanned                                   *)
C2_NonEmptyTransferPreferred ==
    \A i \in Rows :
        /\ (HasTransferAndParams(replies[i]) /\ TransferOf(replies[i]).items # <<>>)
              => TakenFromTransfer(results[i], TransferOf(replies[i]))
        /\ (/\ HasTransferAndParams(replies[i])
            /\ TransferOf(replies[i]).items = <<>>
            /\ results[i].Status = PyStr(SUCCESS))
              => ScannedFromParams(results[i], ParamsOf(replies[i]))

C2_Witness ==
    /\ \E i \in Rows :
          /\ HasTransferAndParams(replies[i])
          /\ TransferOf(replies[i]).items # <<>>
          /\ \E j \in 1..Len(ParamsOf(replies[i]).items) :
                DictGet(ParamsOf(replies[i]).items[j], K_name, PyNone) = PyStr(K_value)
          /\ results[i].Status = PyStr(SUCCESS)
          /\ results[i].To = PyStr(<<"1", "B", "o", "b">>)
    /\ \E i \in Rows :
          /\ HasTransferAndParams(replies[i])
          /\ TransferOf(replies[i]).items = <<>>
          /\ results[i].Status = PyStr(SUCCESS)
          /\ results[i].To = PyStr(<<"1", "C", "a", "r", "o", "l">>)

(* the data has no transfer object and its params are parameters none of    *)
(* which is named 'value'                                                   *)
NoTransferNoValue(r) ==
    /\ IsSuccessWithData(r)
    /\ TransferOf(r) = PyNone
    /\ ParamsOf(r).t = "list"
    /\ \A j \in 1..Len(ParamsOf(r).items) :
          /\ ParamsOf(r).items[j].t = "dict"
          /\ DictGet(ParamsOf(r).items[j], K_name, PyNone) # PyStr(K_value)

(* C3: a successful reply without transfer object and without a parameter   *)
(* named 'value' gives Transfer Amount "N/A", From equal to the sender and  *)
(* status Success, and the loop goes on with the next row                   *)
C3_AmountUnavailable ==
    \A i \in Rows :
        NoTransferNoValue(replies[i]) =>
            /\ results[i].TransferAmount = PyStr(NOT_AVAILABLE)
            /\ results[i].Sender = DictGet(ExData(replies[i]), K_account_id, PyStr(NOT_AVAILABLE))
            /\ results[i].From = results[i].Sender
            /\ results[i].Status = PyStr(SUCCESS)
            /\ (i = Len(results) /\ i < Len(df)) => (pc \in {"request", "respond"} /\ index = i)

C3_Witness ==
    /\ Len(results) = 2
    /\ NoTransferNoValue(replies[1])
    /\ ParamsOf(replies[1]).items # <<>>
    /\ results[1].TransferAmount = PyStr(NOT_AVAILABLE)
    /\ results[2].Status = PyStr(SUCCESS)

IsHttpFailure(r) == r.kind = "response" /\ r.status_code \notin 200..299

IsApiFailure(r) == IsJsonObject(r) /\ Message(r) # PyStr(SUCCESS)

(* C4 as stated: a non-2xx reply or a message other than 'Success' gives    *)
(* the status "API Error: <message>", a transport exception gives its       *)
(* message, and the status is never Success                                 *)
C4_Original_ApiErrorStatus ==
    /\ Len(results) = Len(replies)
    /\ \A i \in Rows :
          /\ (IsHttpFailure(replies[i]) \/ IsApiFailure(replies[i])) =>
                /\ IsJsonObject(replies[i])
                /\ results[i].Status = PyStr(API_ERROR_PREFIX \o Str(Message(replies[i])))
          /\ replies[i].kind = "exception" =>
                results[i].Status = PyStr(ERROR_PREFIX \o replies[i].msg)

(* C4 amended: a reply whose body is a JSON object, with a status code      *)
(* other than 200 or a message other than 'Success', gives the status       *)
(* "API Error: <message>"; a transport exception, or a body that is not a   *)
(* JSON object, gives "Error: <exception message>"; in each case the record *)
(* is appended and its status is not Success                                *)
C4_ErrorStatusRecorded ==
    /\ Len(results) = Len(replies)
    /\ \A i \in Rows :
          /\ (IsJsonObject(replies[i])
                /\ (replies[i].status_code # HTTP_OK \/ Message(replies[i]) # PyStr(SUCCESS))) =>
                results[i].Status = PyStr(API_ERROR_PREFIX \o Str(Message(replies[i])))
          /\ replies[i].kind = "exception" =>
                results[i].Status = PyStr(ERROR_PREFIX \o replies[i].msg)
          /\ (replies[i].kind = "response" /\ replies[i].json.raised) =>
                results[i].Status = PyStr(ERROR_PREFIX \o replies[i].json.msg)
          /\ (replies[i].kind = "response" /\ ~replies[i].json.raised
                /\ replies[i].json.value.t # "dict") =>
                /\ results[i].Status.s # ERROR_PREFIX
                /\ SubSeq(results[i].Status.s, 1, Len(ERROR_PREFIX)) = ERROR_PREFIX
          /\ (IsHttpFailure(replies[i]) \/ IsApiFailure(replies[i])
                \/ replies[i].kind = "exception") =>
                results[i].Status # PyStr(SUCCESS)

C4_Witness ==
    /\ pc = "done"
    /\ Len(results) = 2
    /\ IsJsonObject(replies[1]) /\ IsHttpFailure(replies[1])
    /\ SubSeq(results[1].Status.s, 1, Len(API_ERROR_PREFIX)) = API_ERROR_PREFIX
    /\ replies[2].kind = "exception"
    /\ results[2].Status = PyStr(ERROR_PREFIX \o replies[2].msg)

EndsWith(s, suffix) ==
    Len(s) >= Len(suffix) /\ SubSeq(s, Len(s) - Len(suffix) + 1, Len(s)) = suffix

(* C5 as stated: every record with status Success has a Transfer Amount     *)
(* that is a formatted amount or "N/A", never None                          *)
C5_SuccessHasAmount ==
    \A i \in Rows :
        results[i].Status = PyStr(SUCCESS) =>
            /\ results[i].TransferAmount.t = "str"
            /\ \/ results[i].TransferAmount.s = NOT_AVAILABLE
               \/ EndsWith(results[i].TransferAmount.s, DOT_SUFFIX)

(* C9: one request per row and no retry: a request is issued only when the  *)
(* records of all earlier rows are appended, it carries the hash of the     *)
(* next row, and at the end the requests are the rows' hashes in order      *)
C9_SequentialNoRetry ==
    /\ [](pc = "done" =>
            /\ Len(requests) = Len(df)
            /\ \A i \in 1..Len(df) : requests[i] = Strip(Str(df[i])))
    /\ [][requests' # requests =>
            /\ Len(results) = Len(requests)
            /\ requests' = Append(requests, Strip(Str(df[Len(results) + 1])))]_vars

C9_Witness ==
    /\ pc = "done"
    /\ Len(requests) = MaxRows
    /\ Len(results) = MaxRows
    /\ replies[1].kind = "exception"

(* C10 as stated: a record whose status is not Success has empty Sender,    *)
(* From, To, Transfer Amount, Estimated Fee and Used Fee                    *)
C10_FailedRowsAreEmpty ==
    \A i \in Rows :
        results[i].Status # PyStr(SUCCESS) =>
            /\ results[i].Sender = PyNone
            /\ results[i].From = PyNone
            /\ results[i].To = PyNone
            /\ results[i].TransferAmount = PyNone
            /\ results[i].EstimatedFee = PyNone
            /\ results[i].UsedFee = PyNone

-----------------------------------------------------------------------------
(* Properties of the helpers, checked under SpecHelpers *)

IsDigitString(s) == s # <<>> /\ \A i \in 1..Len(s) : IsDigitChar(s[i])

IsNaturalAmount(raw) == raw.t = "int" \/ (raw.t = "str" /\ IsDigitString(raw.s))

AmountDigits(raw) ==
    Norm(IF raw.t = "int" THEN raw.d ELSE [i \in 1..Len(raw.s) |-> CharDigit(raw.s[i])])

RECURSIVE TrimZeros(_)
TrimZeros(d) == IF d # <<>> /\ d[Len(d)] = 0 THEN TrimZeros(SubSeq(d, 1, Len(d) - 1)) ELSE d

(* the decimal rendering of exactly digits / 10^decimals, trailing zeros   *)
(* trimmed, the integer part grouped in thousands as the code groups it    *)
ExactRendering(digits, decimals) ==
    LET shifted == IF decimals < 0 /\ digits # <<>> THEN digits \o Zeros(0 - decimals)
                   ELSE digits
        places == IF decimals < 0 THEN 0 ELSE decimals
        padded == IF Len(shifted) <= places
                  THEN Zeros(places + 1 - Len(shifted)) \o shifted ELSE shifted
        n == Len(padded)
        whole == DigitsToChars(SubSeq(padded, 1, n - places))
        frac == DigitsToChars(TrimZeros(SubSeq(padded, n - places + 1, n)))
    IN  Grouped(whole) \o (IF frac = <<>> THEN <<>> ELSE <<".">> \o frac)

(* C6 as stated: for a non-negative integer amount and any exponent,       *)
(* format_dot returns the rendering of exactly raw / 10^decimals followed  *)
(* by " DOT", losing no digit                                              *)
C6_ExactQuotient ==
    (call.fn = "format_dot" /\ ret.done /\ IsNaturalAmount(call.raw)) =>
        ret.value = PyStr(ExactRendering(AmountDigits(call.raw), call.decimals) \o DOT_SUFFIX)

AllDigits(s) == \A i \in 1..Len(s) : IsDigitChar(s[i])

(* digits with at most one point, one digit at least *)
IsMantissa(s) ==
    \/ s # <<>> /\ AllDigits(s)
    \/ \E i \in 1..Len(s) :
          /\ s[i] = "."
          /\ Len(s) > 1
          /\ AllDigits(SubSeq(s, 1, i - 1))
          /\ AllDigits(SubSeq(s, i + 1, Len(s)))

(* an optional sign and one digit at least *)
IsExponent(s) ==
    \E sign \in {<<>>, <<"+">>, <<"-">>} :
        \E digits \in {SubSeq(s, Len(sign) + 1, Len(s))} :
            s = sign \o digits /\ digits # <<>> /\ AllDigits(digits)

IsDecimalNumeral(s) ==
    \/ IsMantissa(s)
    \/ \E i \in 1..Len(s) :
          /\ s[i] \in {"e", "E"}
          /\ IsMantissa(SubSeq(s, 1, i - 1))
          /\ IsExponent(SubSeq(s, i + 1, Len(s)))

(* the text of a number: between surrounding white space, an optional sign *)
(* and a decimal numeral whose digits may be separated by single           *)
(* underscores; the words nan, inf and infinity are the text of no number  *)
IsNumericText(str) ==
    \E s \in {RStripSet(LStripSet(str, FloatWhitespace), FloatWhitespace)} :
        \E sign \in {<<>>, <<"+">>, <<"-">>} :
            \E body \in {SubSeq(s, Len(sign) + 1, Len(s))} :
                /\ s = sign \o body
                /\ UnderscoresValid(body)
                /\ IsDecimalNumeral(WithoutUnderscores(body))

(* not a number: a missing value, a structured value, or a string that is  *)
(* not the text of a number                                                *)
IsNonNumeric(raw) ==
    \/ raw.t \in {"none", "dict", "list"}
    \/ raw.t = "str" /\ ~IsNumericText(raw.s)

(* C7 as stated: format_dot does not raise, and on every non-numeric input *)
(* (a missing value, a string that is not the text of a number, a          *)
(* structured value) it returns None and no formatted string               *)
C7_NonNumericGivesNone ==
    (call.fn = "format_dot" /\ ret.done) =>
        /\ ret.value.t \in {"none", "str"}
        /\ IsNonNumeric(call.raw) => ret.value = PyNone

(* C8 as stated: extract_address returns the 'Id' sub-field of every       *)
(* dictionary and the string form of every other value                     *)
C8_Original_IdOfEveryDict ==
    (call.fn = "extract_address" /\ ret.done) =>
        IF call.value.t = "dict"
        THEN HasKey(call.value, K_Id) /\ ret.value = DictGet(call.value, K_Id, PyNone)
        ELSE ret.value = PyStr(Str(call.value))

(* C8 amended: extract_address returns the 'Id' sub-field of every         *)
(* dictionary that has one, and the string form of the value for a         *)
(* dictionary without 'Id' and for every non-dictionary value              *)
C8_IdWhenPresent ==
    (call.fn = "extract_address" /\ ret.done) =>
        /\ (call.value.t = "dict" /\ HasKey(call.value, K_Id)) =>
              \E i \in 1..Len(call.value.items) :
                  call.value.items[i][1] = K_Id /\ ret.value = call.value.items[i][2]
        /\ (call.value.t = "dict" /\ ~HasKey(call.value, K_Id)) =>
              ret.value = PyStr(Repr(call.value))
        /\ call.value.t = "str" => ret.value = call.value
        /\ call.value.t \in {"none", "int", "list"} => ret.value = PyStr(Repr(call.value))

C8_Witness ==
    /\ call.fn = "extract_address"
    /\ ret.done
    /\ call.value.t = "dict"
    /\ ~HasKey(call.value, K_Id)
    /\ call.value.items # <<>>
    /\ ret.value.t = "str"

=============================================================================
